---- MODULE Spec2Model ----
(***************************************************************************)
(* A model of the ffonons phonon benchmark scripts:                        *)
(*   - ffonons/dbs/mp.py        get_mp_ph_docs, the fetch-or-load cache    *)
(*   - ffonons/phonon.py        the per-material loop, the aggregation of  *)
(*                              the stored docs and the coverage lists     *)
(*   - scripts/analysis/metrics_table.py   coverage index and the          *)
(*                              classification metrics tables              *)
(* Each script is a specification of its own over the shared variables;    *)
(* the variables of the other scripts stay at their initial values.        *)
(***************************************************************************)
EXTENDS Integers, Sequences, FiniteSets, TLC

VARIABLES
    \* ---- get_mp_ph_docs (ffonons/dbs/mp.py)
    files,       \* the file system: path -> text written so far
    pc,          \* position of the call in progress
    cur,         \* arguments and path of the call in progress / last call
    doc,         \* mp_phonon_doc of the call in progress
    ret,         \* what the last call returned or raised
    fetchCount,  \* invocations of materials.phonon.get_data_by_id per key
    got,         \* keys for which some call has returned a document
    rets,        \* per key, the documents returned so far, in call order
    files0,      \* the file system when the call in progress started
    curFetched,  \* whether the call in progress invoked the fetch
    nCalls,      \* calls started so far
    \* ---- the per-material loop of ffonons/phonon.py
    pfiles,      \* the files under FIGS_DIR that exist
    ppc,         \* position of the run in the loop body
    pi,          \* index of the material in mp_ids
    pj,          \* index of the model in models
    prun,        \* number of the run (1 is the first)
    pstart,      \* pfiles when the current run started
    pfetched,    \* keys fetched or computed by the current run
    \* ---- the aggregation of phonon.py ("load all docs")
    aentries,    \* the doc files glob finds, as (directory, source) names
    atodo,       \* the entries the loop has not reached yet
    apc,         \* position of the aggregation
    all_docs,    \* mp_id -> model -> doc_dict
    materials_with_2,
    materials_with_3,
    \* ---- the coverage filters, applied to a table of available sources
    ctable,      \* material -> the sources that have a result for it
    cout,        \* the filter applied last and what it returned
    \* ---- the classification tables of metrics_table.py
    spc,         \* position of the script
    scol,        \* index of col in (has_imag_freq, has_imag_gamma_freq)
    smodel,      \* index of the model in the scored models
    y_true,      \* imag_modes_true of the column: one flag per material
    frames,      \* the DataFrame objects made so far, each a list of rows
    dfs_imag,    \* col -> the DataFrame object stored under it
    df_imag,     \* the DataFrame object the name df_imag is bound to
    rendered,    \* the tables the rendering loop has read, in order
    \* ---- the regression metrics table of metrics_table.py
    df_summary,  \* material -> model -> the row of the summary table
    idx_n_avail, \* the materials of the coverage index
    csv,         \* the material ids written to phonon-analysis-mp-ids.csv
    rpc,         \* position of the script
    rmodel,      \* index of the model in Model
    df_regr      \* the rows of df_regr, in the order they were set

cacheVars == <<files, pc, cur, doc, ret, fetchCount, got, rets, files0,
               curFetched, nCalls>>

pipeVars == <<pfiles, ppc, pi, pj, prun, pstart, pfetched>>

aggVars == <<aentries, atodo, apc, all_docs, materials_with_2,
             materials_with_3>>

covVars == <<ctable, cout>>

scoreVars == <<spc, scol, smodel, y_true, frames, dfs_imag, df_imag,
               rendered>>

regrVars == <<df_summary, idx_n_avail, csv, rpc, rmodel, df_regr>>

vars == <<cacheVars, pipeVars, aggVars, covVars, scoreVars, regrVars>>

\* What each script leaves alone
notCache == <<pipeVars, aggVars, covVars, scoreVars, regrVars>>
notPipe == <<cacheVars, aggVars, covVars, scoreVars, regrVars>>
notAgg == <<cacheVars, pipeVars, covVars, scoreVars, regrVars>>
notCov == <<cacheVars, pipeVars, aggVars, scoreVars, regrVars>>
notScore == <<cacheVars, pipeVars, aggVars, covVars, regrVars>>
notRegr == <<cacheVars, pipeVars, aggVars, covVars, scoreVars>>

\* ---------------------------------------------------------------------------
\* Bounds of the model
MaxCalls == 3
MaxRuns == 3
MaxEntries == 2
MaxCovered == 2

\* ---------------------------------------------------------------------------
\* Small helpers
RECURSIVE RemoveAll(_, _)
\* str.replace(x, ''): the sequence without its occurrences of x
RemoveAll(s, x) ==
    IF s = <<>> THEN <<>>
    ELSE IF Head(s) = x THEN RemoveAll(Tail(s), x)
         ELSE <<Head(s)>> \o RemoveAll(Tail(s), x)

\* ===========================================================================
\* get_mp_ph_docs
\* ===========================================================================
MpIds == {"mp-1", "mp-2"}
\* docs_dir arguments: "" is the "do not save" sentinel
DocsDirs == {"", "data/mp"}
Keys == DocsDirs \X MpIds

\* struct.formula of mp_rester.get_structure_by_material_id(mp_id): the
\* formula as pymatgen prints it, with a space between the elements
StructFormula(mp_id) ==
    IF mp_id = "mp-1" THEN <<"Fe2", " ", "O3">> ELSE <<"Na", " ", "Cl">>

\* id_formula = f"{mp_id}-{struct.formula.replace(' ', '')}"
IdFormula(mp_id) == <<mp_id, "-">> \o RemoveAll(StructFormula(mp_id), " ")

\* mutant: the sentinel is not honoured, the path is built for "" as well
MpPhDocPath_NoSentinel(docs_dir, mp_id) ==
    <<docs_dir, "/">> \o IdFormula(mp_id) \o <<".json.xz">>

\* mp_ph_doc_path = f"{docs_dir}/{id_formula}.json.xz" if docs_dir else ""
\* (the empty string is the empty sequence)
MpPhDocPath(docs_dir, mp_id) ==
    IF docs_dir # ""
    THEN <<docs_dir, "/">> \o IdFormula(mp_id) \o <<".json.xz">>
    ELSE <<>>

\* os.path.isfile(path): false for "", true for a file that exists, whatever
\* it holds
IsFile(fs, path) == path # <<>> /\ path \in DOMAIN fs

\* mutant: the save condition is inverted
ShouldSave_Inverted(path) == path = <<>>

\* if mp_ph_doc_path:
ShouldSave(path) == path # <<>>

\* mp_rester.materials.phonon.get_data_by_id(mp_id): a PhononBSDOSDoc object
GetDataById(mp_id) ==
    [type |-> "PhononBSDOSDoc", ph_bs |-> <<"bs", mp_id>>,
     ph_dos |-> <<"dos", mp_id>>]

\* The value of `doc` while nothing is fetched
NoDoc == [type |-> "none", ph_bs |-> <<>>, ph_dos |-> <<>>]

\* json.dump(doc, file, cls=MontyEncoder): the text, as the chunks the encoder
\* writes one after the other. MontyEncoder turns the object into its dict form
\* (as_dict with "@class") before encoding it.
JsonDump(d) ==
    <<"{", "@class", d.type, "ph_bs", d.ph_bs, "ph_dos", d.ph_dos, "}">>

\* Whether a text is a complete JSON document
JsonComplete(text) ==
    /\ Len(text) = 8
    /\ text[1] = "{"
    /\ text[8] = "}"

\* json.load(file): the decoded value is a plain dict (no MontyDecoder, no
\* PhononBSDOSDoc constructor is applied to it)
JsonLoad(text) ==
    [type |-> "dict", ph_bs |-> text[5], ph_dos |-> text[7]]

\* zopen(path, mode="wt"): creates the file, or truncates it
OpenWt(fs, path) ==
    [p \in DOMAIN fs \cup {path} |-> IF p = path THEN <<>> ELSE fs[p]]

\* file.write(chunk)
Append1(fs, path, chunk) == [fs EXCEPT ![path] = Append(@, chunk)]

\* mutant: a failed fetch leaves a marker entry under the key
FetchOutcome_CachesFailure(fs, path, ok) ==
    [files |-> IF ~ok /\ path # <<>> THEN OpenWt(fs, path) ELSE fs,
     pc |-> IF ok THEN "fetched" ELSE "raised"]

\* line 44: the fetch either returns the document or raises; it runs before
\* the file is opened, so storage is not touched by it
FetchOutcome(fs, path, ok) ==
    [files |-> fs, pc |-> IF ok THEN "fetched" ELSE "raised"]

Key(c) == <<c.docs_dir, c.mp_id>>

NoRet == [kind |-> "none", doc |-> NoDoc, path |-> <<>>]

InitCache ==
    /\ files = <<>>
    /\ pc = "idle"
    /\ cur = [mp_id |-> "mp-1", docs_dir |-> "", path |-> <<>>]
    /\ doc = NoDoc
    /\ ret = NoRet
    /\ fetchCount = [k \in Keys |-> 0]
    /\ got = {}
    /\ rets = [k \in Keys |-> <<>>]
    /\ files0 = <<>>
    /\ curFetched = FALSE
    /\ nCalls = 0

Resting == pc \in {"idle", "returned", "raised", "aborted"}

\* lines 34-42: the call starts; on a hit the entry is decoded and returned
\* (json.load raises on a text that is no complete document)
Call(mp_id, docs_dir) ==
    /\ UNCHANGED notCache
    /\ Resting
    /\ nCalls < MaxCalls
    /\ nCalls' = nCalls + 1
    /\ LET path == MpPhDocPath(docs_dir, mp_id)
           c == [mp_id |-> mp_id, docs_dir |-> docs_dir, path |-> path]
       IN /\ cur' = c
          /\ files0' = files
          /\ curFetched' = FALSE
          /\ IF IsFile(files, path)
             THEN IF JsonComplete(files[path])
                  THEN /\ pc' = "returned"
                       /\ doc' = JsonLoad(files[path])
                       /\ ret' = [kind |-> "value", doc |-> doc', path |-> path]
                       /\ got' = got \cup {Key(c)}
                       /\ rets' = [rets EXCEPT ![Key(c)] = Append(@, doc')]
                  ELSE /\ pc' = "raised"
                       /\ doc' = NoDoc
                       /\ ret' = [kind |-> "JSONDecodeError", doc |-> NoDoc,
                                  path |-> path]
                       /\ UNCHANGED <<got, rets>>
             ELSE /\ pc' = "fetch"
                  /\ doc' = NoDoc
                  /\ ret' = NoRet
                  /\ UNCHANGED <<got, rets>>
    /\ UNCHANGED <<files, fetchCount>>

\* line 44: mp_rester.materials.phonon.get_data_by_id(mp_id)
Fetch(ok) ==
    /\ UNCHANGED notCache
    /\ pc = "fetch"
    /\ LET out == FetchOutcome(files, cur.path, ok)
       IN /\ files' = out.files
          /\ pc' = out.pc
    /\ fetchCount' = [fetchCount EXCEPT ![Key(cur)] = @ + 1]
    /\ curFetched' = TRUE
    /\ doc' = IF ok THEN GetDataById(cur.mp_id) ELSE NoDoc
    /\ ret' = IF ok THEN ret
              ELSE [kind |-> "FetchError", doc |-> NoDoc, path |-> cur.path]
    /\ UNCHANGED <<cur, got, rets, files0, nCalls>>

\* lines 45-46: the entry is opened for writing when there is a path
Open ==
    /\ UNCHANGED notCache
    /\ pc = "fetched"
    /\ IF ShouldSave(cur.path)
       THEN /\ files' = OpenWt(files, cur.path)
            /\ pc' = "writing"
       ELSE /\ files' = files
            /\ pc' = "return"
    /\ UNCHANGED <<cur, doc, ret, fetchCount, got, rets, files0, curFetched,
                   nCalls>>

\* line 47: json.dump writes the encoding chunk by chunk; the with block
\* closes the file after the last one
WriteChunk ==
    /\ UNCHANGED notCache
    /\ pc = "writing"
    /\ LET text == JsonDump(doc)
           n == Len(files[cur.path])
       IN /\ files' = Append1(files, cur.path, text[n + 1])
          /\ pc' = IF n + 1 = Len(text) THEN "return" ELSE "writing"
    /\ UNCHANGED <<cur, doc, ret, fetchCount, got, rets, files0, curFetched,
                   nCalls>>

\* line 49: return mp_phonon_doc, mp_ph_doc_path
Return ==
    /\ UNCHANGED notCache
    /\ pc = "return"
    /\ pc' = "returned"
    /\ ret' = [kind |-> "value", doc |-> doc, path |-> cur.path]
    /\ got' = got \cup {Key(cur)}
    /\ rets' = [rets EXCEPT ![Key(cur)] = Append(@, doc)]
    /\ UNCHANGED <<files, cur, doc, fetchCount, files0, curFetched, nCalls>>

\* The run is aborted (interrupt, kill, disk full) while a call is in
\* progress: nothing of the call runs any more, storage stays as it is
Abort ==
    /\ UNCHANGED notCache
    /\ pc \in {"fetch", "fetched", "writing", "return"}
    /\ pc' = "aborted"
    /\ ret' = [kind |-> "aborted", doc |-> NoDoc, path |-> cur.path]
    /\ UNCHANGED <<files, cur, doc, fetchCount, got, rets, files0, curFetched,
                   nCalls>>

NextCache ==
    \/ \E m \in MpIds, d \in DocsDirs : Call(m, d)
    \/ \E ok \in BOOLEAN : Fetch(ok)
    \/ Open
    \/ WriteChunk
    \/ Return
    \/ Abort

\* ===========================================================================
\* Properties of get_mp_ph_docs
\* ===========================================================================

\* C1: with a non-empty storage root, once a call for a key has returned the
\* document (fetched or loaded), no later step invokes the fetch for that key
\* again.
C1_NoFetchOnceGot ==
    [][\A k \in Keys :
          (k[1] # "" /\ k \in got) => fetchCount'[k] = fetchCount[k]]_vars

\* A key of a non-empty root was returned twice and fetched once.
C1_Witness ==
    \E k \in Keys : k[1] # "" /\ Len(rets[k]) >= 2 /\ fetchCount[k] = 1

\* C2: a step in which the fetch is invoked and yields no document ends the
\* call with the fetch error and storage as it was when the call started, and
\* the next call for the same key fetches again.
C2_FetchFailureNotCached ==
    [][/\ (pc = "fetch" /\ fetchCount' # fetchCount /\ doc' = NoDoc)
            => /\ pc' = "raised"
               /\ ret'.kind = "FetchError"
               /\ files' = files0
               /\ ~IsFile(files', cur.path)
       /\ (/\ pc = "raised"
           /\ ret.kind = "FetchError"
           /\ nCalls' = nCalls + 1
           /\ Key(cur') = Key(cur))
            => pc' = "fetch"]_vars

\* A fetch for a stored key failed after an earlier fetch for it: the earlier
\* failure was not cached.
C2_Witness ==
    /\ pc = "raised"
    /\ ret.kind = "FetchError"
    /\ cur.docs_dir # ""
    /\ fetchCount[Key(cur)] >= 2
    /\ got = {}

\* C3: whenever no write is in progress, aborted runs included, every entry
\* that exists in storage holds a complete document.
C3_NoPartialEntry ==
    (pc # "writing") => \A p \in DOMAIN files : JsonComplete(files[p])

\* C5: a call with docs_dir = "" leaves storage as it found it, and when it
\* ends (by returning or raising) it has invoked the fetch.
C5_SentinelDisablesStorage ==
    cur.docs_dir = "" =>
        /\ files = files0
        /\ pc \in {"returned", "raised"} => curFetched

\* A call with docs_dir = "" returned after an earlier fetch for the same
\* material, while storage holds an entry written by a call with a root.
C5_Witness ==
    /\ cur.docs_dir = ""
    /\ pc = "returned"
    /\ fetchCount[Key(cur)] >= 2
    /\ DOMAIN files # {}

\* C6: successive calls for one key return the same document.
C6_SuccessiveCallsSameDocument ==
    \A k \in Keys :
        \A i \in 1..(Len(rets[k]) - 1) : rets[k][i] = rets[k][i + 1]

\* ===========================================================================
\* The per-material loop of phonon.py (lines 84-159)
\* ===========================================================================
\* mp_ids (lines 73-78), two of them
PipeMpIds == <<"mp-504729", "mp-3486">>
\* models (lines 47-68): the entries that are not commented out, lower-cased
PipeModels == <<"chgnet">>

\* The files of one out_dir: phonon-bs-dos-{src}.json.gz, dos-{src}.pdf,
\* bands-{src}.pdf
DocFile(m, src) == <<m, "doc", src>>
DosFig(m, src) == <<m, "dos", src>>
BandsFig(m, src) == <<m, "bands", src>>

\* The (material, source) keys
PipeKeys == {<<PipeMpIds[i], "mp">> : i \in DOMAIN PipeMpIds}
            \cup {<<PipeMpIds[i], PipeModels[j]>> :
                    i \in DOMAIN PipeMpIds, j \in DOMAIN PipeModels}

\* mutant: the reference fetch is guarded by the stored doc
MpNeedsFetch_ByDoc(fs, m) == DocFile(m, "mp") \notin fs

\* line 93: not isfile(mp_dos_fig_path) or not isfile(mp_bands_fig_path)
MpNeedsFetch(fs, m) ==
    DosFig(m, "mp") \notin fs \/ BandsFig(m, "mp") \notin fs

\* line 117: all(map(os.path.isfile, (dos_fig_path, bands_fig_path,
\* ml_doc_path)))
MlSkip(fs, m, model) ==
    /\ DosFig(m, model) \in fs
    /\ BandsFig(m, model) \in fs
    /\ DocFile(m, model) \in fs

InitPipe ==
    /\ pfiles = {}
    /\ ppc = "struct"
    /\ pi = 1
    /\ pj = 1
    /\ prun = 1
    /\ pstart = {}
    /\ pfetched = {}

PipeMat == PipeMpIds[pi]
PipeModel == PipeModels[pj]

\* line 85: struct = mpr.get_structure_by_material_id(mp_id); line 93
PipeMpCheck ==
    /\ UNCHANGED notPipe
    /\ ppc = "struct"
    /\ ppc' = IF MpNeedsFetch(pfiles, PipeMat) THEN "mp_fetch" ELSE "ml_check"
    /\ pj' = 1
    /\ UNCHANGED <<pfiles, pi, prun, pstart, pfetched>>

\* line 94: the reference fetch; its error is not caught and ends the run
PipeMpFetch(ok) ==
    /\ UNCHANGED notPipe
    /\ ppc = "mp_fetch"
    /\ pfetched' = pfetched \cup {<<PipeMat, "mp">>}
    /\ ppc' = IF ok THEN "mp_write" ELSE "crashed"
    /\ UNCHANGED <<pfiles, pi, pj, prun, pstart>>

\* lines 100-102: the mp doc is written
PipeMpWrite ==
    /\ UNCHANGED notPipe
    /\ ppc = "mp_write"
    /\ pfiles' = pfiles \cup {DocFile(PipeMat, "mp")}
    /\ ppc' = "mp_bands"
    /\ UNCHANGED <<pi, pj, prun, pstart, pfetched>>

\* lines 104-106: save_fig(ax_bs_mp, mp_bands_fig_path)
PipeMpBands ==
    /\ UNCHANGED notPipe
    /\ ppc = "mp_bands"
    /\ pfiles' = pfiles \cup {BandsFig(PipeMat, "mp")}
    /\ ppc' = "mp_dos"
    /\ UNCHANGED <<pi, pj, prun, pstart, pfetched>>

\* lines 108-110: save_fig(ax_dos_mp, mp_dos_fig_path)
PipeMpDos ==
    /\ UNCHANGED notPipe
    /\ ppc = "mp_dos"
    /\ pfiles' = pfiles \cup {DosFig(PipeMat, "mp")}
    /\ ppc' = "ml_check"
    /\ UNCHANGED <<pi, pj, prun, pstart, pfetched>>

\* The models loop moves on: next model, next material, or the end
PipeAfterModel ==
    IF pj < Len(PipeModels)
    THEN /\ pj' = pj + 1
         /\ ppc' = "ml_check"
         /\ pi' = pi
    ELSE /\ pj' = 1
         /\ IF pi < Len(PipeMpIds)
            THEN pi' = pi + 1 /\ ppc' = "struct"
            ELSE pi' = pi /\ ppc' = "done"

\* lines 112-119: the skip test of one model
PipeMlCheck ==
    /\ UNCHANGED notPipe
    /\ ppc = "ml_check"
    /\ IF MlSkip(pfiles, PipeMat, PipeModel)
       THEN PipeAfterModel
       ELSE ppc' = "ml_run" /\ UNCHANGED <<pi, pj>>
    /\ UNCHANGED <<pfiles, prun, pstart, pfetched>>

\* lines 121-147: the phonon flow runs; a RuntimeError or ValueError is caught
\* (lines 158-159) and the loop goes on
PipeMlRun(ok) ==
    /\ UNCHANGED notPipe
    /\ ppc = "ml_run"
    /\ pfetched' = pfetched \cup {<<PipeMat, PipeModel>>}
    /\ IF ok
       THEN ppc' = "ml_write" /\ UNCHANGED <<pi, pj>>
       ELSE PipeAfterModel
    /\ UNCHANGED <<pfiles, prun, pstart>>

\* lines 149-150: the model's doc is written
PipeMlWrite ==
    /\ UNCHANGED notPipe
    /\ ppc = "ml_write"
    /\ pfiles' = pfiles \cup {DocFile(PipeMat, PipeModel)}
    /\ ppc' = "ml_dos"
    /\ UNCHANGED <<pi, pj, prun, pstart, pfetched>>

\* lines 152-153: save_fig(ax_dos, dos_fig_path)
PipeMlDos ==
    /\ UNCHANGED notPipe
    /\ ppc = "ml_dos"
    /\ pfiles' = pfiles \cup {DosFig(PipeMat, PipeModel)}
    /\ ppc' = "ml_bands"
    /\ UNCHANGED <<pi, pj, prun, pstart, pfetched>>

\* lines 155-157: save_fig(ax_bs, bands_fig_path)
PipeMlBands ==
    /\ UNCHANGED notPipe
    /\ ppc = "ml_bands"
    /\ pfiles' = pfiles \cup {BandsFig(PipeMat, PipeModel)}
    /\ PipeAfterModel
    /\ UNCHANGED <<prun, pstart, pfetched>>

\* The run is aborted somewhere in the loop
PipeAbort ==
    /\ UNCHANGED notPipe
    /\ ppc \notin {"done", "crashed", "aborted"}
    /\ ppc' = "aborted"
    /\ UNCHANGED <<pfiles, pi, pj, prun, pstart, pfetched>>

\* The script is run again after a run that did not finish
PipeRerun ==
    /\ UNCHANGED notPipe
    /\ ppc \in {"crashed", "aborted"}
    /\ prun < MaxRuns
    /\ prun' = prun + 1
    /\ ppc' = "struct"
    /\ pi' = 1
    /\ pj' = 1
    /\ pstart' = pfiles
    /\ pfetched' = {}
    /\ UNCHANGED pfiles

NextPipe ==
    \/ PipeMpCheck
    \/ \E ok \in BOOLEAN : PipeMpFetch(ok)
    \/ PipeMpWrite
    \/ PipeMpBands
    \/ PipeMpDos
    \/ PipeMlCheck
    \/ \E ok \in BOOLEAN : PipeMlRun(ok)
    \/ PipeMlWrite
    \/ PipeMlDos
    \/ PipeMlBands
    \/ PipeAbort
    \/ PipeRerun

\* ---------------------------------------------------------------------------
\* Properties of the loop

\* The key's doc, or one of its two figures, is missing
MissingAny(fs, k) ==
    \/ DocFile(k[1], k[2]) \notin fs
    \/ DosFig(k[1], k[2]) \notin fs
    \/ BandsFig(k[1], k[2]) \notin fs

Unfinished(fs, k) ==
    IF k[2] = "mp"
    THEN DosFig(k[1], "mp") \notin fs \/ BandsFig(k[1], "mp") \notin fs
    ELSE MissingAny(fs, k)

StrMp == <<"m", "p", "-">>
StrSlashMp == <<"/">> \o StrMp
StrDocPrefix ==
    <<"p", "h", "o", "n", "o", "n", "-", "b", "s", "-", "d", "o", "s", "-">>
StrSlashDocPrefix == <<"/">> \o StrDocPrefix
StrDocSuffix == <<".", "j", "s", "o", "n", ".", "g", "z">>
\* FIGS_DIR (imported from ffonons): a directory path
FigsDir == <<"/", "f", "i", "g", "s">>

\* Directory names that may sit under FIGS_DIR, and source names a doc file
\* may carry between "phonon-bs-dos-" and ".json.gz"
DirNames ==
    { StrMp \o <<"1", "-", "F", "e">>,
      StrMp \o <<"2", "-", "N", "a">>,
      StrMp \o <<"1", "-", "O">>,
      StrMp \o <<"1", "-">>,
      StrMp \o <<"1">>,
      StrMp \o <<"-", "F", "e">>,
      <<"x">> \o StrMp \o <<"1", "-", "F", "e">>,
      <<"g", "a", "r", "b", "a", "g", "e">> }
SrcNames == { <<"m", "p">>, <<"c", "h", "g">>, <<>> }
EntryUniverse == [dir : DirNames, src : SrcNames]

\* The path glob returns for an entry:
\* {FIGS_DIR}/{dir}/phonon-bs-dos-{src}.json.gz
EntryPath(e) ==
    FigsDir \o <<"/">> \o e.dir \o StrSlashDocPrefix \o e.src \o StrDocSuffix

Max(S) == CHOOSE x \in S : \A y \in S : y <= x

\* The literal lit stands in s at position i
LitAt(s, i, lit) ==
    /\ i + Len(lit) - 1 <= Len(s)
    /\ \A n \in 1..Len(lit) : s[i + n - 1] = lit[n]

\* The pattern .json.gz matches s at position l; each dot is any character
SuffixPatAt(s, l) ==
    /\ l + 7 <= Len(s)
    /\ SubSeq(s, l + 1, l + 4) = <<"j", "s", "o", "n">>
    /\ SubSeq(s, l + 6, l + 7) = <<"g", "z">>

\* The positions at which r".*/(mp-.*)-(.*)/phonon-bs-dos-(.*).json.gz" can
\* put its pieces, from the right: k where "/phonon-bs-dos-" starts, j the "-"
\* between the first two groups, i where "/mp-" starts
ReKs(s) ==
    {k \in 1..Len(s) :
        /\ LitAt(s, k, StrSlashDocPrefix)
        /\ \E l \in (k + 15)..Len(s) : SuffixPatAt(s, l)}
ReJs(s) == {j \in 1..Len(s) : s[j] = "-" /\ \E k \in ReKs(s) : k >= j + 1}
ReIs(s) ==
    {i \in 1..Len(s) :
        LitAt(s, i, StrSlashMp) /\ \E j \in ReJs(s) : j >= i + 4}

\* re.search(r".*/(mp-.*)-(.*)/phonon-bs-dos-(.*).json.gz", s): every .* is
\* greedy, so each piece sits as far right as the rest allows
ReSearch(s) ==
    IF ReIs(s) = {}
    THEN [matched |-> FALSE, mp_id |-> <<>>, formula |-> <<>>, model |-> <<>>]
    ELSE LET i == Max(ReIs(s))
             j == Max({x \in ReJs(s) : x >= i + 4})
             k == Max({x \in ReKs(s) : x >= j + 1})
             l == Max({x \in (k + 15)..Len(s) : SuffixPatAt(s, x)})
         IN [matched |-> TRUE,
             mp_id |-> SubSeq(s, i + 1, j - 1),
             formula |-> SubSeq(s, j + 1, k - 1),
             model |-> SubSeq(s, k + 15, l - 1)]

\* mp_id.startswith("mp-")
StartsWithMp(id) == LitAt(id, 1, StrMp)

\* all_docs[mp_id][model] = doc_dict | {formula_key: formula, id_key: mp_id}
\* on a defaultdict(dict)
PutDoc(ad, mp_id, model, formula) ==
    LET old == IF mp_id \in DOMAIN ad THEN ad[mp_id] ELSE <<>>
        rec == [formula |-> formula, material_id |-> mp_id]
        new == [m \in DOMAIN old \cup {model} |->
                   IF m = model THEN rec ELSE old[m]]
    IN [k \in DOMAIN ad \cup {mp_id} |-> IF k = mp_id THEN new ELSE ad[k]]

\* [k for k, v in all_docs.items() if len(v) == k]
MaterialsWith(ad, k) == {m \in DOMAIN ad : Cardinality(DOMAIN ad[m]) = k}

AggIdle ==
    /\ aentries = {}
    /\ atodo = {}
    /\ apc = "off"
    /\ all_docs = <<>>
    /\ materials_with_2 = {}
    /\ materials_with_3 = {}

\* The doc files glob finds when the cell starts
InitAgg ==
    /\ aentries \in {E \in SUBSET EntryUniverse : Cardinality(E) <= MaxEntries}
    /\ atodo = aentries
    /\ apc = "loop"
    /\ all_docs = <<>>
    /\ materials_with_2 = {}
    /\ materials_with_3 = {}

\* lines 164-176: one pass of the loop, on an entry in glob's order (any)
AggLoad(e) ==
    /\ UNCHANGED notAgg
    /\ apc = "loop"
    /\ e \in atodo
    /\ atodo' = atodo \ {e}
    /\ LET m == ReSearch(EntryPath(e))
       IN IF ~m.matched
          THEN \* None.groups(): AttributeError
               /\ apc' = "raised"
               /\ UNCHANGED all_docs
          ELSE IF ~StartsWithMp(m.mp_id)
          THEN /\ apc' = "raised"
               /\ UNCHANGED all_docs
          ELSE /\ apc' = "loop"
               /\ all_docs' = PutDoc(all_docs, m.mp_id, m.model, m.formula)
    /\ UNCHANGED <<aentries, materials_with_2, materials_with_3>>

\* lines 179-183: the loop is over, the coverage lists are built
AggFinish ==
    /\ UNCHANGED notAgg
    /\ apc = "loop"
    /\ atodo = {}
    /\ apc' = "done"
    /\ materials_with_2' = MaterialsWith(all_docs, 2)
    /\ materials_with_3' = MaterialsWith(all_docs, 3)
    /\ UNCHANGED <<aentries, atodo, all_docs>>

NextAgg ==
    \/ \E e \in EntryUniverse : AggLoad(e)
    \/ AggFinish

\* ---------------------------------------------------------------------------
\* Properties of the aggregation

Digits == {"1", "2"}
KeyChars == {"m", "p", "c", "h", "g", "x", "F", "e", "N", "a", "O", "r", "b",
             "1", "2"}

\* The places at which a directory name splits as mp-<digits>-<formula>
SplitsOf(dir) ==
    {j \in 5..(Len(dir) - 1) :
        /\ LitAt(dir, 1, StrMp)
        /\ dir[j] = "-"
        /\ \A n \in 4..(j - 1) : dir[n] \in Digits
        /\ \A n \in (j + 1)..Len(dir) : dir[n] \in KeyChars}

\* The entry's key has the three-part shape (material_id, formula, source)
ThreePart(e) ==
    /\ SplitsOf(e.dir) # {}
    /\ e.src # <<>>
    /\ \A n \in 1..Len(e.src) : e.src[n] \in KeyChars

TrueId(e) == SubSeq(e.dir, 1, Max(SplitsOf(e.dir)) - 1)
TrueFormula(e) == SubSeq(e.dir, Max(SplitsOf(e.dir)) + 1, Len(e.dir))

\* C7: an entry the loop has reached whose key lacks the three-part shape has
\* aborted the aggregation, and every doc in all_docs sits under the
\* identifier, formula and source of a three-part entry.
C7_MalformedKeyAborts ==
    /\ \A e \in aentries \ atodo : ~ThreePart(e) => apc = "raised"
    /\ \A id \in DOMAIN all_docs : \A model \in DOMAIN all_docs[id] :
          \E e \in aentries :
              /\ ThreePart(e)
              /\ TrueId(e) = id
              /\ e.src = model
              /\ TrueFormula(e) = all_docs[id][model].formula

\* C12: after aggregating entries whose keys all have the three-part shape,
\* every doc grouped under a material identifier carries that identifier as
\* its material_id, and all docs grouped under one identifier carry the same
\* formula.
C12_OneIdOneFormula ==
    (\A e \in aentries : ThreePart(e)) =>
        \A id \in DOMAIN all_docs : \A m1, m2 \in DOMAIN all_docs[id] :
            /\ all_docs[id][m1].material_id = id
            /\ all_docs[id][m1].formula = all_docs[id][m2].formula

\* ===========================================================================
\* The coverage filters: materials_with_2 / materials_with_3 (phonon.py
\* 182-183) and idx_n_avail (metrics_table.py 31)
\* ===========================================================================
CovMaterials == {"A", "B", "C"}
\* The reference and the models that may have a result
CovSources == {"pbe", "m1", "m2", "m3", "m4"}
\* dropna(thresh=4)
Thresh == 4

\* all_docs as the aggregation builds it from the docs of the table: a
\* material without any doc has no key
AllDocsOf(t) ==
    [m \in {x \in DOMAIN t : t[x] # {}} |->
        [src \in t[m] |-> [formula |-> <<>>, material_id |-> m]]]

\* df_summary[Key.max_freq].unstack().dropna(thresh=4).index: the rows that
\* hold at least thresh values that are not NaN
IdxNAvail(t) == {m \in DOMAIN t : Cardinality(t[m]) >= Thresh}

CovIdle ==
    /\ ctable = [m \in CovMaterials |-> {}]
    /\ cout = [op |-> "none", k |-> 0, result |-> {}]

InitCov ==
    /\ ctable \in [CovMaterials -> SUBSET CovSources]
    /\ cout = [op |-> "none", k |-> 0, result |-> {}]

\* phonon.py 182-183, k = 2 and k = 3
CovMaterialsWith(k) ==
    /\ UNCHANGED notCov
    /\ cout' = [op |-> "materials_with", k |-> k,
                result |-> MaterialsWith(AllDocsOf(ctable), k)]
    /\ UNCHANGED ctable

\* metrics_table.py 31
CovIdxNAvail ==
    /\ UNCHANGED notCov
    /\ cout' = [op |-> "idx_n_avail", k |-> Thresh,
                result |-> IdxNAvail(ctable)]
    /\ UNCHANGED ctable

NextCov ==
    \/ \E k \in {2, 3} : CovMaterialsWith(k)
    \/ CovIdxNAvail

\* The materials whose record holds exactly k sources
ExactlyK(t, k) == {m \in DOMAIN t : Cardinality(t[m]) = k}

\* C10: the coverage filter for k (2 and 3 in phonon.py) returns exactly the
\* materials that hold exactly k sources, and the materials passed to scoring
\* are the materials that hold exactly k sources, for some k.
C10_CoverageExactlyK ==
    /\ cout.op = "materials_with" => cout.result = ExactlyK(ctable, cout.k)
    /\ cout.op = "idx_n_avail" =>
          \E k \in 1..Cardinality(CovSources) :
              cout.result = ExactlyK(ctable, k)

\* ===========================================================================
\* The classification tables of metrics_table.py (lines 78-189)
\* ===========================================================================
\* The models the loop scores: the members of Model, in the enum's order,
\* without pbe and without those that df_summary does not hold
ScoredModels == <<"mace", "chgnet">>
\* (Key.has_imag_freq, Key.has_imag_gamma_freq)
NumCols == 2

\* Numbers are exact fractions n/d in lowest terms; nan is the value numpy
\* gives 0/0
RECURSIVE GCD(_, _)
GCD(a, b) == IF b = 0 THEN a ELSE GCD(b, a % b)
Abs(x) == IF x < 0 THEN -x ELSE x
NaN == [def |-> FALSE, n |-> 0, d |-> 1]
Rat(n, d) ==
    LET g == GCD(Abs(n), d)
    IN [def |-> TRUE, n |-> n \div g, d |-> d \div g]
RAdd(a, b) ==
    IF a.def /\ b.def THEN Rat(a.n * b.d + b.n * a.d, a.d * b.d) ELSE NaN
RMul(a, b) == IF a.def /\ b.def THEN Rat(a.n * b.n, a.d * b.d) ELSE NaN
\* a / b on numpy floats: 0/0 is nan (a warning, no exception). The values
\* divided here are fractions of a row, so a zero divisor has a zero dividend
RDiv(a, b) ==
    IF a.def /\ b.def /\ b.n # 0 THEN Rat(a.n * b.d, a.d * b.n) ELSE NaN
RLeq(a, b) == a.n * b.d <= b.n * a.d
One == Rat(1, 1)
Zero == Rat(0, 1)

\* round(2): to the nearest hundredth, a half to the even one
Round2(a) ==
    IF ~a.def THEN NaN
    ELSE LET q == (100 * a.n) \div a.d
             r == (100 * a.n) % a.d
         IN IF 2 * r > a.d \/ (2 * r = a.d /\ q % 2 = 1)
            THEN Rat(q + 1, 100)
            ELSE Rat(q, 100)

\* The number of materials with the given reference and model flag
Count(yt, yp, t, p) ==
    Cardinality({i \in DOMAIN yt : yt[i] = t /\ yp[i] = p})

\* One row cm[i] / cm[i].sum() of the matrix followed by np.nan_to_num: a
\* row that sums to zero becomes zeros
NormRow(a, b) ==
    IF a + b = 0 THEN <<Zero, Zero>> ELSE <<Rat(a, a + b), Rat(b, a + b)>>

\* confusion_matrix(y_true, y_pred, normalize="true"): the labels are the
\* values that occur in y_true or y_pred, one row and one column per label
ConfusionMatrix(yt, yp) ==
    LET labels == {yt[i] : i \in DOMAIN yt} \cup {yp[i] : i \in DOMAIN yp}
        neg == NormRow(Count(yt, yp, FALSE, FALSE), Count(yt, yp, FALSE, TRUE))
        pos == NormRow(Count(yt, yp, TRUE, FALSE), Count(yt, yp, TRUE, TRUE))
    IN [n_labels |-> Cardinality(labels),
        tn |-> neg[1], fp |-> neg[2], fn |-> pos[1], tp |-> pos[2]]

\* accuracy_score(y_true, y_pred)
AccuracyScore(yt, yp) ==
    Rat(Cardinality({i \in DOMAIN yt : yt[i] = yp[i]}), Len(yt))

\* roc_auc_score(y_true, y_pred) with flags as scores: the mean of the true
\* positive rate and the true negative rate; it raises when y_true holds one
\* class only
RocAucDefined(yt) == {yt[i] : i \in DOMAIN yt} = {TRUE, FALSE}
RocAucScore(yt, yp) ==
    RMul(Rat(1, 2),
         RAdd(Rat(Count(yt, yp, TRUE, TRUE),
                  Count(yt, yp, TRUE, TRUE) + Count(yt, yp, TRUE, FALSE)),
              Rat(Count(yt, yp, FALSE, FALSE),
                  Count(yt, yp, FALSE, FALSE) + Count(yt, yp, FALSE, TRUE))))

\* lines 95-122 for one model: the exception raised, or the row of the table
ScoreOf(model, yt, yp) ==
    LET cm == ConfusionMatrix(yt, yp)
    IN IF cm.n_labels # 2
       THEN \* (tn, fp), (fn, tp) = conf_mat on a matrix that is not 2 x 2
            [raised |-> "ValueError", row |-> <<>>]
       ELSE IF RAdd(cm.tn, cm.fp) # One \/ RAdd(cm.fn, cm.tp) # One
       THEN [raised |-> "AssertionError", row |-> <<>>]
       ELSE IF ~RocAucDefined(yt)
       THEN [raised |-> "ValueError", row |-> <<>>]
       ELSE LET precision == RDiv(cm.tp, RAdd(cm.tp, cm.fp))
                recall == RDiv(cm.tp, RAdd(cm.tp, cm.fn))
                f1 == RDiv(RMul(Rat(2, 1), RMul(precision, recall)),
                           RAdd(precision, recall))
            IN [raised |-> "none",
                row |-> <<[model |-> model,
                           prec |-> precision,
                           recall |-> recall,
                           f1 |-> f1,
                           roc_auc |-> RocAucScore(yt, yp),
                           acc |-> AccuracyScore(yt, yp),
                           fpr |-> cm.fp,
                           fnr |-> cm.fn,
                           y_true |-> yt,
                           y_pred |-> yp]>>]

\* The rows of a table in descending order of ROC-AUC
SortedDesc(rows) ==
    \A i, j \in DOMAIN rows : i < j => RLeq(rows[j].roc_auc, rows[i].roc_auc)

\* The orders of the rows of a table
RowOrders(rows) ==
    {p \in [DOMAIN rows -> DOMAIN rows] :
        \A i, j \in DOMAIN rows : i # j => p[i] # p[j]}

RoundRow(r) ==
    [r EXCEPT !.prec = Round2(@), !.recall = Round2(@), !.f1 = Round2(@),
              !.roc_auc = Round2(@), !.acc = Round2(@), !.fpr = Round2(@),
              !.fnr = Round2(@)]

\* df.sort_values(by=roc_auc, ascending=False).round(2): the new DataFrames
\* the call may return (rows of equal ROC-AUC come in any order)
SortValuesRound(rows) ==
    {[i \in DOMAIN rows |-> RoundRow(rows[p[i]])] :
        p \in {q \in RowOrders(rows) :
                 SortedDesc([i \in DOMAIN rows |-> rows[q[i]]])}}

\* dfs_imag[col] as the rendering loop reads it (lines 146-147): the object
\* stored under col at line 83
TableOfCol(fr, dfs, c) == fr[dfs[c]]

ScoreIdle ==
    /\ spc = "off"
    /\ scol = 1
    /\ smodel = 1
    /\ y_true = <<>>
    /\ frames = <<>>
    /\ dfs_imag = <<>>
    /\ df_imag = 0
    /\ rendered = <<>>

InitScore ==
    /\ spc = "col"
    /\ scol = 1
    /\ smodel = 1
    /\ y_true = <<>>
    /\ frames = <<>>
    /\ dfs_imag = <<>>
    /\ df_imag = 0
    /\ rendered = <<>>

\* lines 80-83 and 91-93: a new empty DataFrame is bound to df_imag and stored
\* in dfs_imag[col]; the reference flags of the covered materials are read
ScoreColStart ==
    /\ UNCHANGED notScore
    /\ spc = "col"
    /\ \E n \in 1..MaxCovered : y_true' \in [1..n -> BOOLEAN]
    /\ frames' = Append(frames, <<>>)
    /\ df_imag' = Len(frames) + 1
    /\ dfs_imag' = Append(dfs_imag, Len(frames) + 1)
    /\ smodel' = 1
    /\ spc' = "model"
    /\ UNCHANGED <<scol, rendered>>

\* lines 85-122: one model is scored and its row is set in df_imag, in place
ScoreModel ==
    /\ UNCHANGED notScore
    /\ spc = "model"
    /\ smodel <= Len(ScoredModels)
    /\ \E yp \in [DOMAIN y_true -> BOOLEAN] :
          LET out == ScoreOf(ScoredModels[smodel], y_true, yp)
          IN IF out.raised # "none"
             THEN /\ spc' = out.raised
                  /\ UNCHANGED <<frames, smodel>>
             ELSE /\ spc' = "model"
                  /\ frames' = [frames EXCEPT ![df_imag] = @ \o out.row]
                  /\ smodel' = smodel + 1
    /\ UNCHANGED <<scol, y_true, dfs_imag, df_imag, rendered>>

\* lines 124-126: sort_values returns a new DataFrame, and the name df_imag is
\* bound to it
ScoreSort ==
    /\ UNCHANGED notScore
    /\ spc = "model"
    /\ smodel > Len(ScoredModels)
    /\ \E sorted \in SortValuesRound(frames[df_imag]) :
          frames' = Append(frames, sorted)
    /\ df_imag' = Len(frames) + 1
    /\ scol' = scol + 1
    /\ spc' = IF scol < NumCols THEN "col" ELSE "render"
    /\ UNCHANGED <<smodel, y_true, dfs_imag, rendered>>

\* lines 145-189: the rendering loop reads dfs_imag[col] for each col
ScoreRender ==
    /\ UNCHANGED notScore
    /\ spc = "render"
    /\ rendered' =
          Append(rendered, TableOfCol(frames, dfs_imag, Len(rendered) + 1))
    /\ spc' = IF Len(rendered) + 1 < NumCols THEN "render" ELSE "done"
    /\ UNCHANGED <<scol, smodel, y_true, frames, dfs_imag, df_imag>>

NextScore ==
    \/ ScoreColStart
    \/ ScoreModel
    \/ ScoreSort
    \/ ScoreRender

\* ---------------------------------------------------------------------------
\* Properties of the classification tables

ScoreRaised == spc \in {"ValueError", "AssertionError"}

\* C8: scoring never raises, and in every row of a table a score whose
\* denominator is zero is the undefined marker while recall keeps its value,
\* the share of the reference positives the model predicts positive.
C8_ScoringNeverRaises ==
    /\ ~ScoreRaised
    /\ \A f \in DOMAIN frames : \A i \in DOMAIN frames[f] :
          LET r == frames[f][i]
              tp == Count(r.y_true, r.y_pred, TRUE, TRUE)
              fp == Count(r.y_true, r.y_pred, FALSE, TRUE)
              fn == Count(r.y_true, r.y_pred, TRUE, FALSE)
          IN /\ tp + fp = 0 => ~r.prec.def
             /\ tp + fn > 0 => Round2(r.recall) = Round2(Rat(tp, tp + fn))

\* C9: every table the rendering loop reads has its rows in descending order
\* of ROC-AUC.
C9_RenderedSortedByRocAuc ==
    \A t \in DOMAIN rendered : SortedDesc(rendered[t])

\* ===========================================================================
\* The regression metrics table of metrics_table.py (lines 23-75)
\* ===========================================================================
\* for model in Model: the members of the enum, in its order
ModelEnum == <<"pbe", "mace", "chgnet", "m3gnet", "gnome">>
RegrSources == {ModelEnum[i] : i \in DOMAIN ModelEnum}
RegrMaterials == {"mp-1", "mp-2", "mp-10"}

\* int(material_id.split("-")[1])
IdNum(m) == CASE m = "mp-1" -> 1 [] m = "mp-2" -> 2 [] m = "mp-10" -> 10

\* A (material, model) pair without a row in df_summary
Absent == [row |-> FALSE, max_freq |-> NaN, dos_mae |-> NaN, ph_dos_r2 |-> NaN]

\* The values get_df_summary may hold for a (material, model) pair, twice the
\* max_freq in THz per material in the order mp-1, mp-2, mp-10
MaxFreqTimes2 ==
    [pbe |-> <<2, 4, 6>>, mace |-> <<3, 4, 4>>, chgnet |-> <<2, 6, 6>>,
     m3gnet |-> <<2, 4, 6>>, gnome |-> <<4, 4, 4>>]
MatPos(m) == CASE m = "mp-1" -> 1 [] m = "mp-2" -> 2 [] m = "mp-10" -> 3
MaxFreqOf(src, m) == Rat(MaxFreqTimes2[src][MatPos(m)], 2)
DosMaeOf(src, m) ==
    IF src = "pbe" THEN NaN ELSE Rat(MaxFreqTimes2[src][MatPos(m)], 8)
PhDosR2Of(src, m) ==
    IF src = "pbe" THEN NaN ELSE Rat(MatPos(m), 4)

\* A row of df_summary: "absent" is no row, "nan" a row without values,
\* "value" a row with max_freq only, "full" a row with every field
SummaryCell(src, m, opt) ==
    IF opt = "absent" THEN Absent
    ELSE [row |-> TRUE,
          max_freq |-> IF opt = "nan" THEN NaN ELSE MaxFreqOf(src, m),
          dos_mae |-> IF opt = "full" THEN DosMaeOf(src, m) ELSE NaN,
          ph_dos_r2 |-> IF opt = "full" THEN PhDosR2Of(src, m) ELSE NaN]

\* a - b and abs(a) on floats: nan stays nan
RSub(a, b) == RAdd(a, RMul(Rat(-1, 1), b))
RAbs(a) == IF a.def THEN Rat(Abs(a.n), a.d) ELSE NaN

RECURSIVE RSum(_, _)
\* The sum of the values of a Series over the labels S
RSum(s, S) ==
    IF S = {} THEN Zero
    ELSE LET m == CHOOSE x \in S : TRUE
         IN RAdd(s[m], RSum(s, S \ {m}))

\* mutant: nan counts as zero, Series.fillna(0).mean()
Mean_ZeroFill(s) ==
    IF DOMAIN s = {} THEN NaN
    ELSE RDiv(RSum([m \in DOMAIN s |-> IF s[m].def THEN s[m] ELSE Zero],
                   DOMAIN s),
              Rat(Cardinality(DOMAIN s), 1))

\* Series.mean(), skipna=True: the mean of the values that are not nan, nan
\* when there is none
Mean(s) ==
    LET nn == {m \in DOMAIN s : s[m].def}
    IN IF nn = {} THEN NaN ELSE RDiv(RSum(s, nn), Rat(Cardinality(nn), 1))

\* model in df_summary.index.get_level_values(1)
InLevel1(df, src) == \E m \in DOMAIN df : df[m][src].row

\* df.loc[idx]: the rows of the materials of idx
Loc(df, idx) == [m \in idx |-> df[m]]

\* df.xs(src, level=1): the rows of one model, indexed by material; it raises
\* KeyError when there is no such row
XsRaises(df, src) == ~InLevel1(df, src)
Xs(df, src) == [m \in {x \in DOMAIN df : df[x][src].row} |-> df[m][src]]

\* df[field]
ColumnOf(frame, field) == [m \in DOMAIN frame |-> frame[m][field]]

\* a - b on two Series: aligned on the union of the indexes, nan where one of
\* them has no such label
SeriesSub(a, b) ==
    [m \in DOMAIN a \cup DOMAIN b |->
        IF m \in DOMAIN a \cap DOMAIN b THEN RSub(a[m], b[m]) ELSE NaN]

\* Series.abs()
SeriesAbs(s) == [m \in DOMAIN s |-> RAbs(s[m])]

\* Series.dropna().index
NotNan(s) == {m \in DOMAIN s : s[m].def}

\* r2_score(y_true, y_pred): 1 - SS_res / SS_tot; nan for fewer than two
\* samples; with a constant y_true 1 for a perfect prediction and 0 otherwise
\* (force_finite); it raises ValueError on empty input
R2Score(yt, yp) ==
    LET n == DOMAIN yt
        mean == RDiv(RSum(yt, n), Rat(Cardinality(n), 1))
        res == RSum([m \in n |-> RMul(RSub(yt[m], yp[m]),
                                      RSub(yt[m], yp[m]))], n)
        tot == RSum([m \in n |-> RMul(RSub(yt[m], mean),
                                      RSub(yt[m], mean))], n)
    IN IF Cardinality(n) < 2 THEN NaN
       ELSE IF tot = Zero THEN (IF res = Zero THEN One ELSE Zero)
       ELSE RSub(One, RDiv(res, tot))

\* The materials and sources with a max_freq that is not nan
MaxFreqAvail(df) ==
    [m \in DOMAIN df |->
        {s \in RegrSources : df[m][s].row /\ df[m][s].max_freq.def}]

RECURSIVE SortByIdNum(_)
\* sort_index(key=lambda idx: idx.str.split("-").str[1].astype(int))
SortByIdNum(S) ==
    IF S = {} THEN <<>>
    ELSE LET m == CHOOSE x \in S : \A y \in S : IdNum(x) <= IdNum(y)
         IN <<m>> \o SortByIdNum(S \ {m})

\* lines 53-71 for one model: the exception raised and the row as far as it
\* was set (a column not set yet reads nan)
RegrOf(df, idx, model) ==
    IF XsRaises(Loc(df, idx), model) \/ XsRaises(df, "pbe")
    THEN [raised |-> "KeyError", row |-> <<>>]
    ELSE LET df_model == Xs(Loc(df, idx), model)
             df_dft == Xs(df, "pbe")
             diff == SeriesSub(ColumnOf(df_dft, "max_freq"),
                               ColumnOf(df_model, "max_freq"))
             not_nan == NotNan(diff)
             dos == [model |-> model,
                     dos_mae |-> Mean(ColumnOf(df_model, "dos_mae")),
                     ph_dos_r2 |-> Mean(ColumnOf(df_model, "ph_dos_r2")),
                     mae_max_freq |-> NaN,
                     r2_max_freq |-> NaN]
         IN IF not_nan = {}
            THEN [raised |-> "ValueError", row |-> <<dos>>]
            ELSE [raised |-> "none",
                  row |-> <<[dos EXCEPT
                      !.mae_max_freq = Mean(SeriesAbs(diff)),
                      !.r2_max_freq =
                          R2Score([m \in not_nan |-> df_dft[m].max_freq],
                                  [m \in not_nan |-> df_model[m].max_freq])]>>]

\* The rows of df_regr in ascending order of the DOS MAE, nan last
SortedAscDosMae(rows) ==
    \A i, j \in DOMAIN rows : i < j =>
        \/ ~rows[j].dos_mae.def
        \/ rows[i].dos_mae.def /\ RLeq(rows[i].dos_mae, rows[j].dos_mae)

RoundRegrRow(r) ==
    [r EXCEPT !.dos_mae = Round2(@), !.ph_dos_r2 = Round2(@),
              !.mae_max_freq = Round2(@), !.r2_max_freq = Round2(@)]

\* df_regr.convert_dtypes().sort_values(by=Key.dos_mae.label).round(2): the
\* DataFrames the call may return (rows of equal DOS MAE come in any order)
SortRegrRound(rows) ==
    {[i \in DOMAIN rows |-> RoundRegrRow(rows[p[i]])] :
        p \in {q \in RowOrders(rows) :
                 SortedAscDosMae([i \in DOMAIN rows |-> rows[q[i]]])}}

RegrIdle ==
    /\ df_summary = <<>>
    /\ idx_n_avail = {}
    /\ csv = <<>>
    /\ rpc = "off"
    /\ rmodel = 1
    /\ df_regr = <<>>

\* line 23: df_summary as get_df_summary returns it
InitRegr ==
    /\ \E p \in [RegrMaterials -> {"absent", "nan", "value"}],
          a \in [RegrMaterials -> {"absent", "nan", "value", "full"}],
          c \in [RegrMaterials -> {"absent", "full"}],
          g \in {"absent", "full"} :
          df_summary =
              [m \in RegrMaterials |->
                  [pbe |-> SummaryCell("pbe", m, p[m]),
                   mace |-> SummaryCell("mace", m, a[m]),
                   chgnet |-> SummaryCell("chgnet", m, c[m]),
                   m3gnet |-> SummaryCell("m3gnet", m, "full"),
                   gnome |-> SummaryCell("gnome", m, g)]]
    /\ idx_n_avail = {}
    /\ csv = <<>>
    /\ rpc = "idx"
    /\ rmodel = 1
    /\ df_regr = <<>>

\* lines 31-41: the coverage index, and the CSV of its materials read from the
\* rows of pbe; .loc raises KeyError for a material without such a row
RegrIdx ==
    /\ UNCHANGED notRegr
    /\ rpc = "idx"
    /\ idx_n_avail' = IdxNAvail(MaxFreqAvail(df_summary))
    /\ IF XsRaises(df_summary, "pbe")
          \/ \E m \in idx_n_avail' : ~df_summary[m]["pbe"].row
       THEN /\ rpc' = "KeyError"
            /\ csv' = csv
       ELSE /\ rpc' = "loop"
            /\ csv' = SortByIdNum(idx_n_avail')
    /\ UNCHANGED <<df_summary, rmodel, df_regr>>

\* lines 49-51: pbe and the models without a row in df_summary are skipped
RegrSkip ==
    /\ UNCHANGED notRegr
    /\ rpc = "loop"
    /\ rmodel <= Len(ModelEnum)
    /\ \/ ModelEnum[rmodel] = "pbe"
       \/ ~InLevel1(df_summary, ModelEnum[rmodel])
    /\ rmodel' = rmodel + 1
    /\ UNCHANGED <<df_summary, idx_n_avail, csv, rpc, df_regr>>

\* lines 53-71: the row of one model is set in df_regr
RegrModel ==
    /\ UNCHANGED notRegr
    /\ rpc = "loop"
    /\ rmodel <= Len(ModelEnum)
    /\ ModelEnum[rmodel] # "pbe"
    /\ InLevel1(df_summary, ModelEnum[rmodel])
    /\ LET out == RegrOf(df_summary, idx_n_avail, ModelEnum[rmodel])
       IN /\ df_regr' = df_regr \o out.row
          /\ IF out.raised # "none"
             THEN /\ rpc' = out.raised
                  /\ rmodel' = rmodel
             ELSE /\ rpc' = "loop"
                  /\ rmodel' = rmodel + 1
    /\ UNCHANGED <<df_summary, idx_n_avail, csv>>

\* line 75: the sorted and rounded table is bound to df_regr
RegrSort ==
    /\ UNCHANGED notRegr
    /\ rpc = "loop"
    /\ rmodel > Len(ModelEnum)
    /\ df_regr' \in SortRegrRound(df_regr)
    /\ rpc' = "done"
    /\ UNCHANGED <<df_summary, idx_n_avail, csv, rmodel>>

NextRegr ==
    \/ RegrIdx
    \/ RegrSkip
    \/ RegrModel
    \/ RegrSort

\* ---------------------------------------------------------------------------
\* Properties of the regression metrics table

RegrRaised == rpc \in {"KeyError", "ValueError"}

\* Whether df_summary holds a max_freq for the material and the source
HasMaxFreq(m, src) ==
    /\ df_summary # <<>>
    /\ df_summary[m][src].row
    /\ df_summary[m][src].max_freq.def

\* The materials with a max_freq from at least Thresh sources
RegrCovered ==
    {m \in DOMAIN df_summary :
        Cardinality({s \in RegrSources : HasMaxFreq(m, s)}) >= Thresh}

\* The materials with a max_freq of the reference and of the model
BothPresent(model) ==
    {m \in DOMAIN df_summary : HasMaxFreq(m, "pbe") /\ HasMaxFreq(m, model)}

\* The mean absolute error and R2 of a model's max_freq over the materials S,
\* each of which holds both values
MaeOver(S, model) ==
    LET err == [m \in S |-> RAbs(RSub(df_summary[m]["pbe"].max_freq,
                                      df_summary[m][model].max_freq))]
    IN RDiv(RSum(err, S), Rat(Cardinality(S), 1))

R2Over(S, model) ==
    R2Score([m \in S |-> df_summary[m]["pbe"].max_freq],
            [m \in S |-> df_summary[m][model].max_freq])

\* The rows of df_regr whose four columns are set
RegrRowsSet ==
    {i \in DOMAIN df_regr : ~RegrRaised \/ i < Len(df_regr)}

\* A value of df_regr, rounded once line 75 has run
AsStored(x) == IF rpc = "done" THEN Round2(x) ELSE x

\* C11 as stated: MAE and R2 of every scored model are those over exactly the
\* materials that hold both the reference and the model value.
C11_RegrOverBothPresent ==
    \A i \in RegrRowsSet :
        LET r == df_regr[i]
            S == BothPresent(r.model)
        IN /\ S # {}
           /\ r.mae_max_freq = AsStored(MaeOver(S, r.model))
           /\ r.r2_max_freq = AsStored(R2Over(S, r.model))

\* C11 (amended): MAE and R2 of every scored model are those over exactly the
\* materials of the coverage index (a max_freq from at least Thresh sources)
\* that hold both the reference and the model value; a material missing
\* either value adds to neither the sum nor the count. Reference values
\* 1.0, 2.0, 3.0 and model values 1.5, 2.0, 2.0, all covered, give MAE 0.5.
C11_RegrOverCoveredBothPresent ==
    \A i \in RegrRowsSet :
        LET r == df_regr[i]
            S == BothPresent(r.model) \cap RegrCovered
        IN /\ S # {}
           /\ r.mae_max_freq = AsStored(MaeOver(S, r.model))
           /\ r.r2_max_freq = AsStored(R2Over(S, r.model))
           /\ (r.model = "mace" /\ S = RegrMaterials)
                 => r.mae_max_freq = Rat(1, 2)

\* The table is complete, and a covered material without the value of mace,
\* and another without the reference value, stayed out of the row of mace
C11_Witness ==
    /\ rpc = "done"
    /\ \E i \in DOMAIN df_regr :
          /\ df_regr[i].model = "mace"
          /\ df_regr[i].mae_max_freq.def
          /\ \E m \in RegrCovered :
                ~HasMaxFreq(m, "mace") \/ ~HasMaxFreq(m, "pbe")
          /\ Cardinality(BothPresent("mace") \cap RegrCovered) = 2

Init ==
    InitCache /\ InitPipe /\ AggIdle /\ CovIdle /\ ScoreIdle /\ RegrIdle

\* get_mp_ph_docs called again and again
Next == NextCache

Spec == Init /\ [][Next]_vars

\* phonon.py's loop, run and re-run
SpecPipeline == Init /\ [][NextPipe]_vars

\* phonon.py's aggregation of the stored docs
InitAggregate ==
    InitCache /\ InitPipe /\ InitAgg /\ CovIdle /\ ScoreIdle /\ RegrIdle

SpecAggregate == InitAggregate /\ [][NextAgg]_vars

\* The coverage filters applied to any table of available sources
InitCoverage ==
    InitCache /\ InitPipe /\ AggIdle /\ InitCov /\ ScoreIdle /\ RegrIdle

SpecCoverage == InitCoverage /\ [][NextCov]_vars

\* metrics_table.py's classification tables, built and rendered
InitScoring ==
    InitCache /\ InitPipe /\ AggIdle /\ CovIdle /\ InitScore /\ RegrIdle

SpecScoring == InitScoring /\ [][NextScore]_vars

\* metrics_table.py's regression metrics table, for any summary table
InitRegression ==
    InitCache /\ InitPipe /\ AggIdle /\ CovIdle /\ ScoreIdle /\ InitRegr

SpecRegression == InitRegression /\ [][NextRegr]_vars

====
